---- MODULE Spec2Model ----
(***************************************************************************)
(* Model of pyRdfa's vocabulary management (TermOrCurie.py) and execution  *)
(* context (State.py): the profile reader with its class-level cache and   *)
(* anti-recursion stack, the per-node term/prefix tables, and the CURIE    *)
(* and blank-node resolution.                                               *)
(*                                                                         *)
(* Strings are sequences of one-character strings, so that lower(),        *)
(* split(':'), the NCNAME regular expression and concatenation are         *)
(* computed on characters.  Python dictionaries live in a heap of objects, *)
(* so that two names bound to the same dictionary (aliasing) see each      *)
(* other's writes.                                                         *)
(***************************************************************************)
EXTENDS Naturals, Sequences, FiniteSets, TLC

(***************************************************************************)
(* Bounds of the model                                                     *)
(***************************************************************************)
\* number of execution contexts built in one run
MaxCtx == 2
\* nesting depth of profile documents that are themselves RDFa documents
MaxDepth == 6
\* saturation of the observation counter of fetches
CountCap == 2
\* blank nodes created in one run
MaxBNodes == 3

(***************************************************************************)
(* Strings                                                                 *)
(***************************************************************************)
UpperCase == <<"A","B","C","D","E","F","G","H","I","J","K","L","M",
               "N","O","P","Q","R","S","T","U","V","W","X","Y","Z">>
LowerCase == <<"a","b","c","d","e","f","g","h","i","j","k","l","m",
               "n","o","p","q","r","s","t","u","v","w","x","y","z">>
Digits == {"0","1","2","3","4","5","6","7","8","9"}

Range(s) == { s[i] : i \in DOMAIN s }

Letters == Range(UpperCase) \cup Range(LowerCase)

\* str.lower() on one character
LowerChar(c) ==
    IF \E i \in DOMAIN UpperCase : UpperCase[i] = c
    THEN LowerCase[CHOOSE i \in DOMAIN UpperCase : UpperCase[i] = c]
    ELSE c

\* str.lower()
lower(s) == [ i \in DOMAIN s |-> LowerChar(s[i]) ]

\* ncname = re.compile("^[A-Za-z][A-Za-z0-9._-]*$") ; ncname.match(s) != None
ncname(s) ==
    /\ Len(s) >= 1
    /\ s[1] \in Letters
    /\ \A i \in 2..Len(s) : s[i] \in Letters \cup Digits \cup {".", "_", "-"}

\* s.find(c) : the first index of character c (1-based), 0 when absent
find(s, c) ==
    IF \E i \in DOMAIN s : s[i] = c
    THEN CHOOSE i \in DOMAIN s : s[i] = c /\ \A j \in 1..(i-1) : s[j] # c
    ELSE 0

\* str.strip() for the blank character
RECURSIVE lstrip(_)
lstrip(s) == IF s # <<>> /\ Head(s) = " " THEN lstrip(Tail(s)) ELSE s

RECURSIVE rstrip(_)
rstrip(s) ==
    IF s # <<>> /\ s[Len(s)] = " " THEN rstrip(SubSeq(s, 1, Len(s) - 1)) ELSE s

strip(s) == rstrip(lstrip(s))

\* list.reverse()
reverse(s) == [ i \in DOMAIN s |-> s[Len(s) + 1 - i] ]

\* Python's None
None == <<"None">>

\* Python truth value of a string-or-None
Truthy(v) == v # None /\ v # <<>>

\* quote_URI(uri, options): strip, then percent-quote the characters that may
\* not stand in a URI (the blank is the one in the model's alphabet)
RECURSIVE quoteChars(_)
quoteChars(s) ==
    IF s = <<>> THEN <<>>
    ELSE (IF Head(s) = " " THEN <<"%", "2", "0">> ELSE <<Head(s)>>) \o quoteChars(Tail(s))

quote_URI(uri) == quoteChars(strip(uri))

(***************************************************************************)
(* Dictionaries                                                            *)
(***************************************************************************)
EmptyDict == <<>>

\* d[k] = v
Put(d, k, v) == [ x \in DOMAIN d \cup {k} |-> IF x = k THEN v ELSE d[x] ]

\* for key in b : a[key] = b[key]
Overlay(a, b) == [ x \in DOMAIN a \cup DOMAIN b |-> IF x \in DOMAIN b THEN b[x] ELSE a[x] ]

\* the identity of a newly created object: one no live object has
NewId(h) == CHOOSE i \in 1..(Cardinality(DOMAIN h) + 1) : i \notin DOMAIN h

Restrict(h, ids) == [ i \in DOMAIN h \cap ids |-> h[i] ]

(***************************************************************************)
(* The documents behind the profile URIs (the environment of the parser)   *)
(***************************************************************************)
\* GRDDL_PROFILE = "http://www.w3.org/2003/g/data-view"
GRDDL_PROFILE == <<"h", ":", "G">>

PA == <<"h", ":", "A">>
PB == <<"h", ":", "B">>
PC == <<"h", ":", "C">>
PD == <<"h", ":", "D">>
PE == <<"h", ":", "E">>

ProfileURIs == {PA, PB, PC, PD, PE, GRDDL_PROFILE}

\* the base handed to the parser by its caller
CallerBase == <<"h", ":", "/">>

Lit(v) == [lit |-> TRUE, v |-> v]
Ref(v) == [lit |-> FALSE, v |-> v]

\* What CachedURIOpener and the parser of the media type give for a profile URI:
\* kind "rdfa" is an (X)HTML document parsed by pyRdfa itself, whose element carries
\* @profile = refs; kind "turtle" is parsed by RDFLib; kind "error" cannot be
\* dereferenced.  A and B reference each other; E references the unreachable D.
Web(uri) ==
    CASE uri = PA -> [kind |-> "rdfa", refs |-> <<PB>>, graph |->
            { <<"a1", "term", Lit(<<"t">>)>>,   <<"a1", "uri", Ref(<<"u", ":", "1">>)>>,
              <<"a2", "prefix", Lit(<<"p">>)>>, <<"a2", "uri", Ref(<<"n", ":", "1">>)>>,
              <<"a0", "vocabulary", Ref(<<"v", ":", "1">>)>> }]
      [] uri = PB -> [kind |-> "rdfa", refs |-> <<PA>>, graph |->
            { <<"b1", "term", Lit(<<"T">>)>>,   <<"b1", "uri", Ref(<<"u", ":", "2">>)>>,
              <<"b2", "prefix", Lit(<<"q">>)>>, <<"b2", "uri", Ref(<<"n", ":", "2">>)>>,
              \* a subject used for a term and for a prefix: both ignored
              <<"b3", "term", Lit(<<"w">>)>>,   <<"b3", "prefix", Lit(<<"w">>)>>,
              <<"b3", "uri", Ref(<<"u", ":", "9">>)>> }]
      [] uri = PC -> [kind |-> "turtle", refs |-> <<>>, graph |->
            { <<"c1", "term", Lit(<<"s">>)>>,   <<"c1", "uri", Ref(<<"u", ":", "3">>)>>,
              <<"c2", "prefix", Lit(<<"P">>)>>, <<"c2", "uri", Ref(<<"n", ":", " ", "3">>)>>,
              \* not an NCNAME, not a literal, no URI: all ignored
              <<"c3", "prefix", Lit(<<"1", "x">>)>>, <<"c3", "uri", Ref(<<"n", ":", "9">>)>>,
              <<"c4", "term", Ref(<<"r">>)>>,   <<"c4", "uri", Ref(<<"u", ":", "9">>)>>,
              <<"c5", "term", Lit(<<"z">>)>>,
              <<"c0", "vocabulary", Ref(<<"v", ":", "2">>)>> }]
      [] uri = PE -> [kind |-> "rdfa", refs |-> <<PD>>, graph |->
            { <<"e1", "term", Lit(<<"t">>)>>,   <<"e1", "uri", Ref(<<"u", ":", "5">>)>> }]
      \* the GRDDL profile is a document that declares no term and no prefix
      [] uri = GRDDL_PROFILE -> [kind |-> "rdfa", refs |-> <<>>, graph |-> {}]
      [] OTHER -> [kind |-> "error", refs |-> <<>>, graph |-> {}]

(***************************************************************************)
(* Reading a profile graph                                                 *)
(***************************************************************************)
\* graph.objects(subj, pred) with subj = None meaning any subject
objects(graph, pred) == { tr[3] : tr \in { x \in graph : x[2] = pred } }

objectsOf(graph, subj, pred) ==
    { tr[3] : tr \in { x \in graph : x[1] = subj /\ x[2] = pred } }

\* graph.subjects(pred, obj)
subjects(graph, pred, obj) ==
    { tr[1] : tr \in { x \in graph : x[2] = pred /\ x[3] = obj } }

\* The declarations of _find_terms that pass every test: the pairs <<term, uri>>
ValidDecls(graph, term_or_prefix) ==
    LET opposite == IF term_or_prefix = "term" THEN "prefix" ELSE "term"
        ok(term) ==
            /\ term.lit
            /\ ncname(term.v)
            /\ Cardinality(subjects(graph, term_or_prefix, term)) = 1
            /\ LET subj == CHOOSE x \in subjects(graph, term_or_prefix, term) : TRUE
               IN  /\ Cardinality(objectsOf(graph, subj, term_or_prefix)) = 1
                   /\ Cardinality(objectsOf(graph, subj, opposite)) = 0
                   /\ Cardinality(objectsOf(graph, subj, "uri")) = 1
        uriOf(term) ==
            LET subj == CHOOSE x \in subjects(graph, term_or_prefix, term) : TRUE
            IN  (CHOOSE u \in objectsOf(graph, subj, "uri") : TRUE).v
    IN  { <<term.v, uriOf(term)>> : term \in { x \in objects(graph, term_or_prefix) : ok(x) } }

\* _find_terms(graph, prof, term_or_prefix) writing into dictionary d:
\* d[str(term).lower()] = URIRef(uri)  or  Namespace(quote_URI(uri))
find_terms(d, graph, term_or_prefix) ==
    LET decls == ValidDecls(graph, term_or_prefix)
        val(u) == IF term_or_prefix = "term" THEN u ELSE quote_URI(u)
        keys == { lower(x[1]) : x \in decls }
    IN  [ k \in DOMAIN d \cup keys |->
            IF k \in keys
            THEN val((CHOOSE x \in decls : lower(x[1]) = k)[2])
            ELSE d[k] ]

\* the vocabulary a profile graph sets (lines 160-166): the only definition, if
\* there is exactly one; otherwise self.vocabulary keeps the value v it had
graph_vocabulary(v, graph) ==
    LET voc_defs == objects(graph, "vocabulary")
    IN  IF Cardinality(voc_defs) = 1 THEN (CHOOSE x \in voc_defs : TRUE).v ELSE v

(***************************************************************************)
(* State                                                                   *)
(***************************************************************************)
VARIABLES
    heap,           \* the dictionaries alive in the process: identity -> contents
    profile_cache,  \* ProfileRead.profile_cache : profile URI -> <<terms, ns>> (identities)
    profile_stack,  \* ProfileRead.profile_stack : the anti-recursion list
    bnodes,         \* _bnodes : local name -> blank node
    bnode_made,     \* how many BNode() objects were created after _empty_bnode
    ctxs,           \* the execution contexts built so far, in order of construction
    run,            \* per thread: the construction in progress and its ProfileRead frames
    fetches,        \* observation: how often each profile URI was dereferenced
    first,          \* observation: what the first, uncached resolution of a URI wrote
    last            \* observation: how the latest operation of each thread ended

vars == <<heap, profile_cache, profile_stack, bnodes, bnode_made, ctxs, run,
          fetches, first, last>>

Threads == {1, 2}
MainThread == CHOOSE t \in Threads : \A u \in Threads : t <= u

\* _empty_bnode = BNode(), created when the module is loaded
empty_bnode == 0

\* XHTML_URI = "http://www.w3.org/1999/xhtml/vocab#"
XHTML_URI == <<"x", ":", "#">>

Versions == {"1.0", "1.1"}
\* state.rdfa_version >= "1.1"
AtLeast11(version) == version = "1.1"

Idle == [pc |-> "idle"]

\* the observation counter of uri, one more (it stays at CountCap)
Bump(counter, uri) ==
    [counter EXCEPT ![uri] = IF @ < CountCap THEN @ + 1 ELSE @]

(***************************************************************************)
(* Nodes: attrs maps an attribute name to its raw value (hasAttribute,     *)
(* getAttribute); attributes is the DOM's attribute list of the xmlns      *)
(* declarations, in document order.                                         *)
(***************************************************************************)
hasAttribute(node, name) == name \in DOMAIN node.attrs
getAttribute(node, name) == node.attrs[name]

\* str.split(): the maximal runs of non-blank characters
RECURSIVE splitFrom(_, _, _)
splitFrom(s, i, word) ==
    IF i > Len(s) THEN (IF word = <<>> THEN <<>> ELSE <<word>>)
    ELSE IF s[i] = " "
         THEN (IF word = <<>> THEN <<>> ELSE <<word>>) \o splitFrom(s, i + 1, <<>>)
         ELSE splitFrom(s, i + 1, Append(word, s[i]))

split(s) == splitFrom(s, 1, <<>>)

\* urlparse.urlsplit(val)[0]: the characters before the first ':' when they are
\* all scheme characters, lower-cased; "" otherwise
scheme(val) ==
    LET i == find(val, ":")
    IN  IF i > 1 /\ \A j \in 1..(i-1) : val[j] \in Letters \cup Digits \cup {"+", "-", "."}
        THEN lower(SubSeq(val, 1, i - 1))
        ELSE <<>>

\* urlparse.urljoin(base, val) for an absolute val (returned as it is) and for a
\* plain relative name under a base that ends in '/'
urljoin(base, val) == IF scheme(val) # <<>> THEN val ELSE base \o val

\* ExecutionContext._URI(val)
URI(base, val) ==
    IF val = <<>> THEN base
    ELSE IF scheme(base) = <<>>
         THEN (IF scheme(val) = <<>> THEN base \o strip(val) ELSE strip(val))
         ELSE LET joined == urljoin(base, val)
              IN  IF val[Len(val)] # joined[Len(joined)]
                  THEN strip(joined \o <<val[Len(val)]>>)
                  ELSE strip(joined)

\* getURI(attr) for the list-valued @profile: every token through _URI
getURI_profile(base, node) ==
    IF hasAttribute(node, "profile")
    THEN LET toks == split(getAttribute(node, "profile"))
         IN  [ i \in DOMAIN toks |-> URI(base, strip(toks[i])) ]
    ELSE <<>>

\* getURI(attr) for the scalar @vocab: the stripped value through _URI, None if absent
getURI_vocab(base, node) ==
    IF hasAttribute(node, "vocab")
    THEN URI(base, strip(getAttribute(node, "vocab")))
    ELSE None

(***************************************************************************)
(* Garbage: a dictionary no name refers to any more is gone                *)
(***************************************************************************)
FrameRefs(r) ==
    IF r.pc = "idle" THEN {}
    ELSE UNION { {r.frames[i].terms, r.frames[i].ns} : i \in DOMAIN r.frames }

Reachable(cache, cs, rn) ==
    UNION { {cache[u][1], cache[u][2]} : u \in DOMAIN cache }
    \cup UNION { {cs[i].terms, cs[i].ns} : i \in DOMAIN cs }
    \cup UNION { FrameRefs(rn[t]) : t \in Threads }

(***************************************************************************)
(* Initial state: the module has just been loaded                          *)
(***************************************************************************)
NoContrib == [set |-> FALSE]

Init ==
    /\ heap = <<>>
    /\ profile_cache = <<>>
    /\ profile_stack = <<>>
    /\ bnodes = <<>>
    /\ bnode_made = 0
    /\ ctxs = <<>>
    /\ run = [t \in Threads |-> Idle]
    /\ fetches = [u \in ProfileURIs |-> 0]
    /\ first = [u \in ProfileURIs |-> NoContrib]
    /\ last = [t \in Threads |-> [op |-> "none"]]

(***************************************************************************)
(* ProfileRead.__init__, one step per access to the shared class state.    *)
(* A frame is one ProfileRead under construction: the profiles still to be *)
(* visited, the profile in hand, and self.terms, self.ns, self.vocabulary. *)
(* A profile that is an RDFa document is parsed by pyRdfa itself, whose    *)
(* ProfileRead is a frame on top of the waiting one.                       *)
(***************************************************************************)
Frames(t) == run[t].frames
Top(t) == Frames(t)[Len(Frames(t))]
WithTop(t, f) == [run EXCEPT ![t].frames[Len(Frames(t))] = f]
Busy(t) == run[t].pc = "busy"
At(t, pc) == Busy(t) /\ Top(t).pc = pc

NewFrame(profs, tid, nid) ==
    [pc |-> "loop", profs |-> profs, cur |-> None, via |-> "none",
     terms |-> tid, ns |-> nid, vocabulary |-> None]

\* options.host_language: the family of the markup
XHTML_RDFA == "xhtml_rdfa"
HTML_RDFA == "html_rdfa"
RDFA_CORE == "rdfa_core"
HostLanguages == {XHTML_RDFA, HTML_RDFA, RDFA_CORE}

\* node.getElementsByTagName("base"): for each base element its @href, or None
\* where it has no @href
base_elements(node) == IF "bases" \in DOMAIN node THEN node.bases ELSE <<>>

\* lines 121-127: the base of a context with an inherited state
inherited_base(inherited, node, host) ==
    IF host = RDFA_CORE /\ hasAttribute(node, "xml:base")
    THEN getAttribute(node, "xml:base")
    ELSE inherited.base

\* lines 164-167: the @href of the last base element that has one
RECURSIVE base_loop(_, _)
base_loop(b, bases) ==
    IF bases = <<>> THEN b
    ELSE base_loop(IF Head(bases) # None THEN Head(bases) ELSE b, Tail(bases))

\* lines 161-175: the base of a context at the very top
top_base(node, host, base) ==
    LET b1 == IF host \in {XHTML_RDFA, HTML_RDFA}
              THEN base_loop(<<>>, base_elements(node)) ELSE <<>>
        b2 == IF host = RDFA_CORE /\ hasAttribute(node, "xml:base")
              THEN getAttribute(node, "xml:base") ELSE b1
    IN  IF b2 = <<>> THEN base ELSE b2

\* inherited_state == None : there is no inherited state at the top level
NoState == [absent |-> TRUE]

\* lines 186-224: self.lang
settle_lang(inherited, node, host) ==
    LET l0 == IF inherited = NoState THEN None ELSE inherited.lang
    IN  IF host \in {XHTML_RDFA, HTML_RDFA}
        THEN LET lang == IF hasAttribute(node, "lang")
                         THEN lower(getAttribute(node, "lang")) ELSE None
                 xmllang == IF hasAttribute(node, "xml:lang")
                            THEN lower(getAttribute(node, "xml:lang")) ELSE None
             IN  IF xmllang # None
                 THEN (IF Len(xmllang) # 0 THEN xmllang ELSE l0)
                 ELSE IF lang # None
                      THEN (IF Len(lang) # 0 THEN lang ELSE l0)
                      ELSE l0
        ELSE IF hasAttribute(node, "xml:lang")
             THEN LET l == lower(getAttribute(node, "xml:lang"))
                  IN  IF Len(l) = 0 THEN None ELSE l
             ELSE l0

\* ExecutionContext.__init__ up to the creation of the TermOrCurie instance, and
\* ProfileRead.__init__ up to the loop: the version and the base are settled,
\* self.terms = {} and self.ns = {} are created, the reversed @profile list is taken
Begin(t, parent, node, version, host) ==
    /\ run[t].pc = "idle"
    /\ Len(ctxs) < MaxCtx
    /\ parent \in 0..Len(ctxs)
    /\ parent > 0 => version = ctxs[parent].rdfa_version
    /\ parent > 0 => host = ctxs[parent].host_language
    /\ LET base == IF parent > 0 THEN inherited_base(ctxs[parent], node, host)
                   ELSE top_base(node, host, CallerBase)
           tid  == NewId(heap)
           h1   == Put(heap, tid, EmptyDict)
           nid  == NewId(h1)
           profs == IF AtLeast11(version) THEN reverse(getURI_profile(base, node)) ELSE <<>>
       IN  /\ heap' = Put(h1, nid, EmptyDict)
           /\ run' = [run EXCEPT ![t] =
                        [pc |-> "busy", parent |-> parent, node |-> node,
                         rdfa_version |-> version, base |-> base,
                         host_language |-> host,
                         frames |-> <<NewFrame(profs, tid, nid)>>]]
    /\ UNCHANGED <<profile_cache, profile_stack, bnodes, bnode_made, ctxs,
                   fetches, first, last>>

\* a reader without the anti-recursion test
OnStackNever(prof) == FALSE

\* line 145: prof in ProfileRead.profile_stack
OnStack(prof) == prof \in Range(profile_stack)

\* a cache that is never consulted
InCacheNever(prof) == FALSE

\* line 151: prof in ProfileRead.profile_cache
InCache(prof) == prof \in DOMAIN profile_cache

\* lines 139-149: the next profile; the GRDDL profile and a profile that is on the
\* stack are jumped over, any other is appended to the stack
PRLoop(t) ==
    /\ At(t, "loop")
    /\ Top(t).profs # <<>>
    /\ LET f == Top(t)
           prof == Head(f.profs)
       IN  IF prof = GRDDL_PROFILE
           THEN /\ run' = WithTop(t, [f EXCEPT !.profs = Tail(f.profs)])
                /\ UNCHANGED profile_stack
           ELSE IF OnStack(prof)
           THEN /\ run' = WithTop(t, [f EXCEPT !.profs = Tail(f.profs)])
                /\ UNCHANGED profile_stack
           ELSE /\ profile_stack' = Append(profile_stack, prof)
                /\ run' = WithTop(t, [f EXCEPT !.profs = Tail(f.profs),
                                               !.cur = prof, !.pc = "cache"])
    /\ UNCHANGED <<heap, profile_cache, bnodes, bnode_made, ctxs,
                   fetches, first, last>>

\* lines 151-153: a cached profile replaces self.terms and self.ns by the cached
\* dictionaries themselves; self.vocabulary is not touched
PRCache(t) ==
    /\ At(t, "cache")
    /\ LET f == Top(t)
       IN  IF InCache(f.cur)
           THEN /\ run' = WithTop(t, [f EXCEPT !.terms = profile_cache[f.cur][1],
                                               !.ns = profile_cache[f.cur][2],
                                               !.pc = "pop", !.via = "cache"])
                /\ heap' = Restrict(heap, Reachable(profile_cache, ctxs, run'))
           ELSE /\ run' = WithTop(t, [f EXCEPT !.pc = "fetch"])
                /\ UNCHANGED heap
    /\ UNCHANGED <<profile_cache, profile_stack, bnodes, bnode_made, ctxs,
                   fetches, first, last>>

\* lines 155 and 185-243, _get_graph: the document is dereferenced.  An RDFLib
\* format gives the graph at once; an RDFa document is parsed by a nested run of the
\* parser; anything else raises FailedProfile, which every waiting _get_graph
\* catches (line 239) and raises again under its own name, up to the caller of the
\* constructor.  Nothing is popped from the stack on that way.
PRFetch(t) ==
    /\ At(t, "fetch")
    /\ LET f == Top(t)
           w == Web(f.cur)
       IN  /\ fetches' = Bump(fetches, f.cur)
           /\ IF w.kind = "turtle"
              THEN /\ run' = WithTop(t, [f EXCEPT !.pc = "graph"])
                   /\ UNCHANGED <<heap, last>>
              ELSE IF w.kind = "rdfa"
              THEN /\ Len(Frames(t)) < MaxDepth
                   /\ LET tid == NewId(heap)
                          h1  == Put(heap, tid, EmptyDict)
                          nid == NewId(h1)
                          \* the nested document is read under the same version
                          profs == reverse(w.refs)
                      IN  /\ heap' = Put(h1, nid, EmptyDict)
                          /\ run' = [run EXCEPT ![t].frames =
                                       Append(WithTop(t, [f EXCEPT !.pc = "wait"])[t].frames,
                                              NewFrame(profs, tid, nid))]
                   /\ UNCHANGED last
              ELSE /\ run' = [run EXCEPT ![t] = Idle]
                   /\ last' = [last EXCEPT ![t] =
                                [op |-> "construct", outcome |-> "FailedProfile",
                                 uri |-> Frames(t)[1].cur]]
                   /\ heap' = Restrict(heap, Reachable(profile_cache, ctxs, run'))
    /\ UNCHANGED <<profile_cache, profile_stack, bnodes, bnode_made, ctxs,
                   first>>

\* the nested parser run has read its document: _get_graph returns the graph
PRReturn(t) ==
    /\ At(t, "loop")
    /\ Top(t).profs = <<>>
    /\ Len(Frames(t)) > 1
    /\ LET below == Frames(t)[Len(Frames(t)) - 1]
           rest == SubSeq(Frames(t), 1, Len(Frames(t)) - 2)
       IN  run' = [run EXCEPT ![t].frames = Append(rest, [below EXCEPT !.pc = "graph"])]
    /\ heap' = Restrict(heap, Reachable(profile_cache, ctxs, run'))
    /\ UNCHANGED <<profile_cache, profile_stack, bnodes, bnode_made, ctxs,
                   fetches, first, last>>

\* lines 159-181: the vocabulary, the terms and the prefixes of the graph are
\* written into self, and <<self.terms, self.ns>> is stored in the cache
PRGraph(t) ==
    /\ At(t, "graph")
    /\ LET f == Top(t)
           graph == Web(f.cur).graph
           terms == find_terms(heap[f.terms], graph, "term")
           ns == find_terms(heap[f.ns], graph, "prefix")
       IN  /\ run' = WithTop(t, [f EXCEPT !.vocabulary = graph_vocabulary(f.vocabulary, graph),
                                          !.pc = "pop", !.via = "graph"])
           /\ heap' = [heap EXCEPT ![f.terms] = terms, ![f.ns] = ns]
           /\ profile_cache' = Put(profile_cache, f.cur, <<f.terms, f.ns>>)
           /\ first' = IF first[f.cur].set THEN first
                       ELSE [first EXCEPT ![f.cur] =
                               [set |-> TRUE,
                                terms |-> find_terms(EmptyDict, graph, "term"),
                                ns |-> find_terms(EmptyDict, graph, "prefix"),
                                vocabulary |-> graph_vocabulary(None, graph)]]
    /\ UNCHANGED <<profile_stack, bnodes, bnode_made, ctxs,
                   fetches, last>>

\* line 183: ProfileRead.profile_stack.pop()
PRPop(t) ==
    /\ At(t, "pop")
    /\ profile_stack # <<>>
    /\ profile_stack' = SubSeq(profile_stack, 1, Len(profile_stack) - 1)
    /\ run' = WithTop(t, [Top(t) EXCEPT !.pc = "loop", !.via = "none"])
    /\ UNCHANGED <<heap, profile_cache, bnodes, bnode_made, ctxs,
                   fetches, first, last>>

(***************************************************************************)
(* TermOrCurie.__init__ after the ProfileRead                              *)
(***************************************************************************)
\* lines 384-402: the default term URI (default vocabulary)
default_term_uri(version, inherited, vocabulary, def_term_uri) ==
    IF AtLeast11(version)
    THEN LET d0 == IF inherited = NoState THEN None ELSE inherited.default_term_uri
             d1 == IF Truthy(vocabulary) THEN vocabulary ELSE d0
         IN  IF Truthy(def_term_uri) THEN def_term_uri ELSE d1
    ELSE None

\* a top level that takes the reader's dictionary itself instead of a copy
terms_table_shared(h, inherited, rv_terms) ==
    IF inherited = NoState
    THEN [heap |-> h, ref |-> rv_terms]
    ELSE IF Cardinality(DOMAIN h[rv_terms]) = 0
         THEN [heap |-> h, ref |-> inherited.terms]
         ELSE LET id == NewId(h)
              IN  [heap |-> Put(h, id, Overlay(h[inherited.terms], h[rv_terms])), ref |-> id]

\* lines 406-425: self.terms.  The result is the heap and the identity of the table:
\* a new dictionary at the top level and where the profiles gave terms, the
\* inherited dictionary itself otherwise
terms_table(h, inherited, rv_terms) ==
    IF inherited = NoState
    THEN LET id == NewId(h) IN [heap |-> Put(h, id, h[rv_terms]), ref |-> id]
    ELSE IF Cardinality(DOMAIN h[rv_terms]) = 0
         THEN [heap |-> h, ref |-> inherited.terms]
         ELSE LET id == NewId(h)
              IN  [heap |-> Put(h, id, Overlay(h[inherited.terms], h[rv_terms])), ref |-> id]

startswith(s, p) == Len(s) >= Len(p) /\ SubSeq(s, 1, Len(p)) = p

XMLNS_COLON == <<"x", "m", "l", "n", "s", ":">>

\* lines 438-459: one attribute of the node
xmlns_attr(dict, attr, version) ==
    IF startswith(attr.name, XMLNS_COLON) /\ attr.localName # <<>>
    THEN IF attr.localName = <<"_">> THEN dict
         ELSE IF find(attr.localName, ":") # 0 THEN dict
         ELSE LET pr == IF AtLeast11(version) THEN lower(attr.localName) ELSE attr.localName
              IN  Put(dict, pr, quote_URI(attr.value))
    ELSE dict

\* lines 437-459: for i in range(0, state.node.attributes.length)
RECURSIVE xmlns_loop(_, _, _)
xmlns_loop(dict, attributes, version) ==
    IF attributes = <<>> THEN dict
    ELSE xmlns_loop(xmlns_attr(dict, Head(attributes), version), Tail(attributes), version)

\* a @prefix pair that is written whatever the dictionary holds
may_write_always(dict, real_prefix) == TRUE

\* line 494: if real_prefix not in dict
may_write(dict, real_prefix) == real_prefix \notin DOMAIN dict

\* lines 477-498: one pair of the @prefix attribute; st is the local dictionary
\* and the default CURIE URI
prefix_pair(st, prefix_token, value) ==
    IF prefix_token[Len(prefix_token)] # ":" THEN st
    ELSE LET prefix == SubSeq(prefix_token, 1, Len(prefix_token) - 1)
             uri == quote_URI(value)
         IN  IF prefix = <<>> THEN [st EXCEPT !.default_curie_uri = uri]
             ELSE IF prefix = <<"_">> THEN st
             ELSE IF ncname(prefix)
                  THEN LET real_prefix == lower(prefix)
                       IN  IF may_write(st.dict, real_prefix)
                           THEN [st EXCEPT !.dict = Put(st.dict, real_prefix, uri)]
                           ELSE st
                  ELSE st

\* lines 468-476: for i in range(0, len(pr_list), 2), leaving at a last token
\* that has no URI
RECURSIVE prefix_loop(_, _, _)
prefix_loop(st, pr_list, i) ==
    IF i > Len(pr_list) THEN st
    ELSE IF i = Len(pr_list) THEN st
    ELSE prefix_loop(prefix_pair(st, pr_list[i], pr_list[i + 1]), pr_list, i + 2)

\* lines 429-498: the local dictionary and the default CURIE URI of the node
local_decls(version, node, rv_ns, curie_uri) ==
    LET d1 == xmlns_loop(rv_ns, node.attributes, version)
        st == [dict |-> d1, default_curie_uri |-> curie_uri]
    IN  IF AtLeast11(version) /\ hasAttribute(node, "prefix")
        THEN prefix_loop(st, split(strip(getAttribute(node, "prefix"))), 1)
        ELSE st

\* the local namespaces first, then the inherited ones over them
merge_ns_inherited_last(inherited_ns, dict) == Overlay(dict, inherited_ns)

\* lines 509-510: the inherited namespaces, then the local ones over them
merge_ns(inherited_ns, dict) == Overlay(inherited_ns, dict)

\* lines 504-512: self.ns, as the heap and the identity of the table
ns_table(h, inherited, dict) ==
    IF Cardinality(DOMAIN dict) = 0 /\ inherited # NoState
    THEN [heap |-> h, ref |-> inherited.ns]
    ELSE LET id == NewId(h)
         IN  IF inherited # NoState
             THEN [heap |-> Put(h, id, merge_ns(h[inherited.ns], dict)), ref |-> id]
             ELSE [heap |-> Put(h, id, dict), ref |-> id]

\* The ProfileRead has returned to TermOrCurie.__init__ (line 377), which builds
\* the tables of the context; ExecutionContext.__init__ then ends
Finish(t) ==
    /\ At(t, "loop")
    /\ Top(t).profs = <<>>
    /\ Len(Frames(t)) = 1
    /\ LET r == run[t]
           f == Top(t)
           inherited == IF r.parent = 0 THEN NoState ELSE ctxs[r.parent]
           curie0 == IF inherited = NoState THEN XHTML_URI ELSE inherited.default_curie_uri
           dtu == default_term_uri(r.rdfa_version, inherited, f.vocabulary,
                                   getURI_vocab(r.base, r.node))
           tt == terms_table(heap, inherited, f.terms)
           loc == local_decls(r.rdfa_version, r.node, heap[f.ns], curie0)
           nt == ns_table(tt.heap, inherited, loc.dict)
           ctx == [parent |-> r.parent, rdfa_version |-> r.rdfa_version, base |-> r.base,
                   host_language |-> r.host_language,
                   lang |-> settle_lang(inherited, r.node, r.host_language),
                   terms |-> tt.ref, ns |-> nt.ref,
                   default_term_uri |-> dtu, default_curie_uri |-> loc.default_curie_uri,
                   dict |-> loc.dict]
       IN  /\ ctxs' = Append(ctxs, ctx)
           /\ run' = [run EXCEPT ![t] = Idle]
           /\ last' = [last EXCEPT ![t] =
                        [op |-> "construct", outcome |-> "ok", ctx |-> Len(ctxs) + 1]]
           /\ heap' = Restrict(nt.heap, Reachable(profile_cache, ctxs', run'))
    /\ UNCHANGED <<profile_cache, profile_stack, bnodes, bnode_made,
                   fetches, first>>

(***************************************************************************)
(* Resolution of CURIEs                                                    *)
(***************************************************************************)
NoneVal == [t |-> "none"]
URIRef(v) == [t |-> "uri", v |-> v]
BNode(id) == [t |-> "bnode", id |-> id]

\* a table of blank nodes that is never consulted
known_bnode_never(bn, reference) == FALSE

\* line 554: if reference in _bnodes
known_bnode(bn, reference) == reference \in DOMAIN bn

\* lines 548-560: the blank node of a reference; a new one is BNode(), stored
bnode_for(bn, made, reference) ==
    IF Len(reference) = 0
    THEN [ret |-> BNode(empty_bnode), bnodes |-> bn, made |-> made]
    ELSE IF known_bnode(bn, reference)
         THEN [ret |-> BNode(bn[reference]), bnodes |-> bn, made |-> made]
         ELSE [ret |-> BNode(made + 1), bnodes |-> Put(bn, reference, made + 1),
               made |-> made + 1]

\* TermOrCurie.CURIE_to_URI(val) on context c, with the blank-node table bn
CURIE_to_URI(c, val, bn, made) ==
    LET no == [ret |-> NoneVal, bnodes |-> bn, made |-> made]
        yes(u) == [ret |-> URIRef(u), bnodes |-> bn, made |-> made]
        i == find(val, ":")
    IN  IF val = <<>> \/ val = <<":">> THEN no
        ELSE IF i = 0 THEN no
        ELSE LET raw == SubSeq(val, 1, i - 1)
                 prefix == IF AtLeast11(c.rdfa_version) THEN lower(raw) ELSE raw
                 reference == SubSeq(val, i + 1, Len(val))
             IN  IF Len(reference) > 0 /\ reference[1] = ":" THEN no
                 ELSE IF Len(prefix) = 0 THEN yes(c.default_curie_uri \o reference)
                 ELSE IF prefix = <<"_">> THEN bnode_for(bn, made, reference)
                 ELSE IF ncname(prefix)
                      THEN IF prefix \in DOMAIN heap[c.ns]
                           THEN yes(heap[c.ns][prefix] \o reference)
                           ELSE no
                      ELSE no

\* a safe CURIE that falls back on the plain URI like any other value
CURIEorURI_safe_as_plain(c, val, bn, made) ==
    LET no == [ret |-> NoneVal, bnodes |-> bn, made |-> made]
        plain(v) == [ret |-> URIRef(URI(c.base, v)), bnodes |-> bn, made |-> made]
    IN  IF val = <<>> THEN [ret |-> URIRef(c.base), bnodes |-> bn, made |-> made]
        ELSE IF val[1] = "[" /\ val[Len(val)] # "]" THEN no
        ELSE LET safe_curie == val[1] = "["
                 v == IF safe_curie THEN SubSeq(val, 2, Len(val) - 1) ELSE val
                 r == CURIE_to_URI(c, v, bn, made)
             IN  IF AtLeast11(c.rdfa_version)
                 THEN IF r.ret = NoneVal
                      THEN plain(v)
                      ELSE IF r.ret.t # "bnode" /\ scheme(r.ret.v) = <<>>
                           THEN [r EXCEPT !.ret = URIRef(c.base \o r.ret.v)]
                           ELSE r
                 ELSE IF safe_curie THEN r ELSE plain(v)

\* ExecutionContext._CURIEorURI(val) on context c (lines 296-336)
CURIEorURI(c, val, bn, made) ==
    LET no == [ret |-> NoneVal, bnodes |-> bn, made |-> made]
        plain(v) == [ret |-> URIRef(URI(c.base, v)), bnodes |-> bn, made |-> made]
    IN  IF val = <<>> THEN [ret |-> URIRef(c.base), bnodes |-> bn, made |-> made]
        ELSE IF val[1] = "[" /\ val[Len(val)] # "]" THEN no
        ELSE LET safe_curie == val[1] = "["
                 v == IF safe_curie THEN SubSeq(val, 2, Len(val) - 1) ELSE val
                 r == CURIE_to_URI(c, v, bn, made)
             IN  IF AtLeast11(c.rdfa_version)
                 THEN IF r.ret = NoneVal
                      THEN (IF safe_curie THEN no ELSE plain(v))
                      ELSE IF r.ret.t # "bnode" /\ scheme(r.ret.v) = <<>>
                           THEN [r EXCEPT !.ret = URIRef(c.base \o r.ret.v)]
                           ELSE r
                 ELSE IF safe_curie THEN r ELSE plain(v)

\* a caller resolves the CURIE val in context c
ResolveCURIE(t, c, val) ==
    /\ run[t].pc = "idle"
    /\ c \in DOMAIN ctxs
    /\ bnode_made < MaxBNodes
    /\ LET r == CURIE_to_URI(ctxs[c], val, bnodes, bnode_made)
       IN  /\ bnodes' = r.bnodes
           /\ bnode_made' = r.made
           /\ last' = [last EXCEPT ![t] =
                        [op |-> "CURIE_to_URI", ctx |-> c, val |-> val, ret |-> r.ret]]
    /\ UNCHANGED <<heap, profile_cache, profile_stack, ctxs, run,
                   fetches, first>>

\* getURI("about") or getURI("resource") on context c, whose node carries the
\* attribute with the raw value: the stripped value through _CURIEorURI (lines
\* 388-411; the attribute is scalar)
GetURI_about(t, c, raw) ==
    /\ run[t].pc = "idle"
    /\ c \in DOMAIN ctxs
    /\ bnode_made < MaxBNodes
    /\ LET val == strip(raw)
           r == CURIEorURI(ctxs[c], val, bnodes, bnode_made)
       IN  /\ bnodes' = r.bnodes
           /\ bnode_made' = r.made
           /\ last' = [last EXCEPT ![t] =
                        [op |-> "getURI_about", ctx |-> c, val |-> val, ret |-> r.ret]]
    /\ UNCHANGED <<heap, profile_cache, profile_stack, ctxs, run,
                   fetches, first>>

(***************************************************************************)
(* Terms, and getURI for any attribute                                     *)
(***************************************************************************)
\* Python's truth value of what a resolution returned: None and the empty URI
\* are false
Falsy(ret) == ret = NoneVal \/ (ret.t = "uri" /\ ret.v = <<>>)

\* a lookup that asks the default vocabulary before the term table
term_to_URI_vocabulary_first(c, term) ==
    IF Len(term) = 0 THEN NoneVal
    ELSE IF ncname(term)
         THEN IF c.default_term_uri # None
              THEN URIRef(c.default_term_uri \o term)
              ELSE IF lower(term) \in DOMAIN heap[c.terms]
                   THEN URIRef(heap[c.terms][lower(term)])
                   ELSE NoneVal
         ELSE NoneVal

\* TermOrCurie.term_to_URI(term) on context c
term_to_URI(c, term) ==
    IF Len(term) = 0 THEN NoneVal
    ELSE IF ncname(term)
         THEN IF lower(term) \in DOMAIN heap[c.terms]
              THEN URIRef(heap[c.terms][lower(term)])
              ELSE IF c.default_term_uri # None
                   THEN URIRef(c.default_term_uri \o term)
                   ELSE NoneVal
         ELSE NoneVal

\* an absolute URI in place of a term or a CURIE, always
abs_uri_fallback_always(version) == TRUE

\* line 361: elif self.rdfa_version >= "1.1"
abs_uri_fallback(version) == AtLeast11(version)

\* ExecutionContext._TERMorCURIEorAbsURI(val) on context c; warning is the
\* category of the warning added to the options ("none": no such warning)
TERMorCURIEorAbsURI(c, val, bn, made) ==
    LET out(ret, w) == [ret |-> ret, bnodes |-> bn, made |-> made, warning |-> w]
    IN  IF val = <<>> THEN out(NoneVal, "none")
        ELSE IF ncname(val)
        THEN LET retval == term_to_URI(c, val)
             IN  IF Falsy(retval) THEN out(NoneVal, "UnresolvableTerm")
                 ELSE out(retval, "none")
        ELSE LET r == CURIE_to_URI(c, val, bn, made)
             IN  IF ~Falsy(r.ret)
                 THEN [ret |-> r.ret, bnodes |-> r.bnodes, made |-> r.made, warning |-> "none"]
                 ELSE IF abs_uri_fallback(c.rdfa_version)
                      THEN IF scheme(val) = <<>>
                           THEN out(NoneVal, "UnresolvablePrefix")
                           ELSE out(URIRef(val), "none")
                      ELSE out(NoneVal, "UnresolvablePrefix")

\* the category of the warning _CURIEorURI(val) adds to the options ("none": no
\* such warning): an incomplete safe CURIE (line 305) and, under 1.1, a safe
\* CURIE that is not defined (line 318)
CURIEorURI_warning(c, val, bn, made) ==
    IF val = <<>> THEN "none"
    ELSE IF val[1] = "[" /\ val[Len(val)] # "]" THEN "UnresolvablePrefix"
    ELSE LET safe_curie == val[1] = "["
             v == IF safe_curie THEN SubSeq(val, 2, Len(val) - 1) ELSE val
         IN  IF /\ AtLeast11(c.rdfa_version)
                /\ safe_curie
                /\ CURIE_to_URI(c, v, bn, made).ret = NoneVal
             THEN "UnresolvablePrefix"
             ELSE "none"

\* ExecutionContext._list
list_attrs == {"profile", "rel", "rev", "property", "typeof"}

\* ExecutionContext._resource_type[attr](self, val) (lines 97-111)
resource_type(c, attr, val, bn, made) ==
    IF attr \in {"href", "src", "profile", "vocab"}
    THEN [ret |-> URIRef(URI(c.base, val)), bnodes |-> bn, made |-> made, warning |-> "none"]
    ELSE IF attr \in {"about", "resource"}
    THEN LET r == CURIEorURI(c, val, bn, made)
         IN  [ret |-> r.ret, bnodes |-> r.bnodes, made |-> r.made,
              warning |-> CURIEorURI_warning(c, val, bn, made)]
    ELSE TERMorCURIEorAbsURI(c, val, bn, made)

\* a list that keeps what could not be resolved
kept_all(r) == TRUE

\* r != None (line 407)
kept(r) == r # NoneVal

\* lines 406-407, one token: its result is appended if it is not None
resolve_token(c, attr, acc, tok) ==
    LET r == resource_type(c, attr, strip(tok), acc.bnodes, acc.made)
    IN  [ret |-> IF kept(r.ret) THEN Append(acc.ret, r.ret) ELSE acc.ret,
         bnodes |-> r.bnodes, made |-> r.made,
         warnings |-> IF r.warning # "none" THEN Append(acc.warnings, r.warning)
                      ELSE acc.warnings]

\* lines 406-407: every token through the function of the attribute, one after
\* the other
RECURSIVE resolve_list(_, _, _, _)
resolve_list(c, attr, toks, acc) ==
    IF toks = <<>> THEN acc
    ELSE resolve_list(c, attr, Tail(toks), resolve_token(c, attr, acc, Head(toks)))

\* ExecutionContext.getURI(attr) on context c, whose node has the attribute
\* with the value raw, or has no such attribute (raw = None)
getURI(c, attr, raw, bn, made) ==
    IF raw = None
    THEN [ret |-> IF attr \in list_attrs THEN <<>> ELSE NoneVal,
          bnodes |-> bn, made |-> made, warnings |-> <<>>]
    ELSE IF attr \in list_attrs
    THEN resolve_list(c, attr, split(raw),
                      [ret |-> <<>>, bnodes |-> bn, made |-> made, warnings |-> <<>>])
    ELSE LET r == resource_type(c, attr, strip(raw), bn, made)
         IN  [ret |-> r.ret, bnodes |-> r.bnodes, made |-> r.made,
              warnings |-> IF r.warning # "none" THEN <<r.warning>> ELSE <<>>]

\* a caller asks context c for the URIs of an attribute of its node
GetURI(t, c, attr, raw) ==
    /\ run[t].pc = "idle"
    /\ c \in DOMAIN ctxs
    /\ bnode_made < MaxBNodes
    /\ LET r == getURI(ctxs[c], attr, raw, bnodes, bnode_made)
       IN  /\ bnodes' = r.bnodes
           /\ bnode_made' = r.made
           /\ last' = [last EXCEPT ![t] =
                        [op |-> "getURI", ctx |-> c, attr |-> attr, val |-> raw,
                         ret |-> r.ret, warnings |-> r.warnings]]
    /\ UNCHANGED <<heap, profile_cache, profile_stack, ctxs, run,
                   fetches, first>>

(***************************************************************************)
(* CURIE_to_URI("_:reference") statement by statement, for callers in       *)
(* several threads.  The module has no lock: the interpreter may switch    *)
(* threads between the test of line 554, the BNode() of line 558 and the   *)
(* assignment of line 559.                                                 *)
(***************************************************************************)
InBNode(t, at) == run[t].pc = "bnode" /\ run[t].at = at

\* lines 548-555: the reference is not empty; a known reference returns its entry
BNTest(t, c, reference) ==
    /\ run[t].pc = "idle"
    /\ c \in DOMAIN ctxs
    /\ Len(reference) > 0
    /\ IF known_bnode(bnodes, reference)
       THEN /\ last' = [last EXCEPT ![t] =
                         [op |-> "bnode", reference |-> reference,
                          ret |-> BNode(bnodes[reference])]]
            /\ UNCHANGED run
       ELSE /\ run' = [run EXCEPT ![t] =
                        [pc |-> "bnode", at |-> "new", reference |-> reference,
                         frames |-> <<>>]]
            /\ UNCHANGED last
    /\ UNCHANGED <<heap, profile_cache, profile_stack, bnodes, bnode_made, ctxs,
                   fetches, first>>

\* line 558: retval = BNode()
BNNew(t) ==
    /\ InBNode(t, "new")
    /\ bnode_made < MaxBNodes
    /\ bnode_made' = bnode_made + 1
    /\ run' = [run EXCEPT ![t] =
                 [pc |-> "bnode", at |-> "store", reference |-> run[t].reference,
                  retval |-> bnode_made + 1, frames |-> <<>>]]
    /\ UNCHANGED <<heap, profile_cache, profile_stack, bnodes, ctxs,
                   fetches, first, last>>

\* lines 559-560: _bnodes[reference] = retval ; return retval
BNStore(t) ==
    /\ InBNode(t, "store")
    /\ bnodes' = Put(bnodes, run[t].reference, run[t].retval)
    /\ last' = [last EXCEPT ![t] =
                  [op |-> "bnode", reference |-> run[t].reference,
                   ret |-> BNode(run[t].retval)]]
    /\ run' = [run EXCEPT ![t] = Idle]
    /\ UNCHANGED <<heap, profile_cache, profile_stack, bnode_made, ctxs,
                   fetches, first>>

(***************************************************************************)
(* The nodes the parser is given                                           *)
(***************************************************************************)
\* tokens written into one attribute value, separated by blanks
RECURSIVE Join(_)
Join(toks) ==
    IF toks = <<>> THEN <<>>
    ELSE IF Len(toks) = 1 THEN toks[1]
    ELSE toks[1] \o <<" ">> \o Join(Tail(toks))

Attr(name, value) == IF value = None THEN <<>> ELSE (name :> value)

MkNode(profile, vocab, prefix, attributes) ==
    [attrs |-> Attr("profile", profile) @@ Attr("vocab", vocab) @@ Attr("prefix", prefix),
     attributes |-> attributes]

XmlnsAttr(localName, value) ==
    [name |-> XMLNS_COLON \o localName, localName |-> localName, value |-> value]

\* @profile values
ProfileAttrs ==
    { None, PA, PB, PC, PD, PE,
      Join(<<PA, PC>>), Join(<<PC, PA>>), Join(<<GRDDL_PROFILE, PC>>) }

\* @vocab values
VocabAttrs == { None, <<>>, <<"v", ":", "3">> }

\* nodes that differ in their profiles
NodesProfile == { MkNode(p, None, None, <<>>) : p \in ProfileAttrs }

\* nodes that differ in their vocabulary, with and without profiles
NodesVocab == { MkNode(p, v, None, <<>>) : p \in {None, PA, PC}, v \in VocabAttrs }

N4 == <<"n", ":", "4">>
N5 == <<"n", ":", "5">>
N6 == <<"n", ":", "6">>
N7 == <<"n", ":", "7">>
N8 == <<"n", ":", "8">>

\* the xmlns attributes of a node, in document order: none; p; P and q (the
\* plain xmlns is no prefix declaration); the reserved "_" and a name with ':'
AttributeLists ==
    { <<>>,
      <<XmlnsAttr(<<"p">>, N4)>>,
      <<[name |-> <<"x", "m", "l", "n", "s">>, localName |-> <<"x", "m", "l", "n", "s">>,
         value |-> N4],
        XmlnsAttr(<<"P">>, <<"n", ":", " ", "5">>), XmlnsAttr(<<"q">>, N4)>>,
      <<XmlnsAttr(<<"_">>, N4), XmlnsAttr(<<"a", ":", "b">>, N5)>> }

\* @prefix values: none; p twice and Q; the empty prefix, "_", a token without
\* ':', a name that is no NCNAME and a last token without URI
PrefixAttrs ==
    { None,
      Join(<<<<"p", ":">>, N6, <<"Q", ":">>, N7, <<"p", ":">>, N8>>),
      Join(<<<<":">>, N6, <<"_", ":">>, N7, <<"r">>, N7, <<"1", "r", ":">>, N8,
             <<"r", ":">>, N8, <<"q", ":">>>>) }

\* nodes that differ in their prefix declarations, with and without a profile,
\* and one whose profile is an RDFa document
NodesPrefix ==
    { MkNode(p, None, x, a) : p \in {None, PC}, x \in PrefixAttrs, a \in AttributeLists }
    \cup { MkNode(PA, None, Join(<<<<"p", ":">>, N6, <<"Q", ":">>, N7>>), <<>>) }

\* nodes of documents whose CURIEs are resolved: without declarations, with a
\* profile and local declarations, and with two profiles
NodesResolve ==
    { MkNode(None, None, None, <<>>),
      MkNode(PC, <<"v", ":", "3">>, Join(<<<<"r", ":">>, N6, <<":">>, N7>>),
             <<XmlnsAttr(<<"q">>, N4)>>),
      MkNode(Join(<<PA, PC>>), None, None, <<>>) }

\* CURIEs handed to CURIE_to_URI
CurieVals ==
    { <<"_", ":", "x">>, <<"_", ":", "y">>, <<"_", ":">>, <<"_", ":", ":", "x">>,
      <<"Q", ":">>, <<":", "x">> }

\* values of @about and @resource
AboutVals ==
    { <<"[", "_", ":", "x", "]">>, <<"[", "_", ":", "]">>, <<"_", ":", "y">>,
      <<"[", "_", ":", "y">>, <<" ", "[", "p", ":", "x", "]">> }

(***************************************************************************)
(* The parser of one document after the other: one thread, and no          *)
(* construction starts before the one in progress has ended                *)
(***************************************************************************)
Construct(t, nodes) ==
    \E parent \in 0..MaxCtx, node \in nodes, version \in Versions :
        Begin(t, parent, node, version, XHTML_RDFA)

StepLoop == PRLoop(MainThread)
StepCache == PRCache(MainThread)
StepFetch == PRFetch(MainThread)
StepReturn == PRReturn(MainThread)
StepGraph == PRGraph(MainThread)
StepPop == PRPop(MainThread)
StepFinish == Finish(MainThread)

Steps ==
    \/ StepLoop
    \/ StepCache
    \/ StepFetch
    \/ StepReturn
    \/ StepGraph
    \/ StepPop
    \/ StepFinish

\* documents that differ in their profiles
BeginProfile == Construct(MainThread, NodesProfile)

Next ==
    \/ BeginProfile
    \/ Steps

Spec == Init /\ [][Next]_vars

\* documents whose profiles list each other, or cannot be read, or can; the
\* interpreter goes on with a constructor it has entered
NodesCycle == { MkNode(p, None, None, <<>>) : p \in {PA, PB, PE, Join(<<PC, PA>>)} }

BeginCycle == Construct(MainThread, NodesCycle)

NextCycle ==
    \/ BeginCycle
    \/ Steps

SpecLive == Init /\ [][NextCycle]_vars /\ WF_vars(Steps)

\* documents that differ in their vocabulary
BeginVocab == Construct(MainThread, NodesVocab)

NextVocab ==
    \/ BeginVocab
    \/ Steps

SpecVocab == Init /\ [][NextVocab]_vars

\* documents that differ in their prefix declarations
BeginPrefix == Construct(MainThread, NodesPrefix)

NextPrefix ==
    \/ BeginPrefix
    \/ Steps

SpecPrefix == Init /\ [][NextPrefix]_vars

\* documents whose CURIEs are resolved once their contexts exist
BeginResolve == Construct(MainThread, NodesResolve)
CallCURIE == \E c \in 1..MaxCtx, val \in CurieVals : ResolveCURIE(MainThread, c, val)
CallAbout == \E c \in 1..MaxCtx, raw \in AboutVals : GetURI_about(MainThread, c, raw)

NextResolve ==
    \/ BeginResolve
    \/ Steps
    \/ CallCURIE
    \/ CallAbout

SpecResolve == Init /\ [][NextResolve]_vars

\* nodes of documents whose attributes are resolved: with a profile that gives
\* the term t, the prefix p and a vocabulary, and with a vocabulary and a
\* namespace of their own
NodesTerm ==
    { MkNode(PA, None, None, <<>>),
      MkNode(None, <<"v", ":", "3">>, None, <<XmlnsAttr(<<"q">>, N4)>>) }

\* the attributes asked for and their values (None: the node has no such
\* attribute): terms in either case, a name that is a prefix too, CURIEs of a
\* known and of an unknown prefix, a value without scheme, a blank node, lists
\* with repetitions and with values that cannot be resolved
TermCalls ==
    { <<"rel", <<"T">>>>,
      <<"rel", <<"q">>>>,
      <<"typeof", <<"k", ":", "y", " ", "/", "y">>>>,
      <<"property", <<"t", " ", "/", "y", " ", " ", "t", " ", "q", ":", "x", " ", "z">>>>,
      <<"rev", <<"_", ":", "x", " ", "q", " ", "_", ":", "x">>>>,
      <<"rel", None>>,
      <<"datatype", <<" ", "k", ":", "y">>>>,
      <<"datatype", <<"z">>>>,
      <<"datatype", None>>,
      <<"profile", <<"h", ":", "A", " ", "y", " ", "h", ":", "A">>>> }

BeginTerm == Construct(MainThread, NodesTerm)
\* the parser asks the context of the node in hand, the newest one
CallGetURI == \E call \in TermCalls : GetURI(MainThread, Len(ctxs), call[1], call[2])

NextTerm ==
    \/ BeginTerm
    \/ Steps
    \/ CallGetURI

SpecTerm == Init /\ [][NextTerm]_vars

\* two threads resolve blank-node CURIEs in the contexts of a document
\* without profiles
NodesPlain == { MkNode(None, None, None, <<>>) }
References == { <<"x">>, <<"y">> }

BeginPlain == Construct(MainThread, NodesPlain)
CallBNode == \E t \in Threads, reference \in References : BNTest(t, Len(ctxs), reference)
StepBNNew == \E t \in Threads : BNNew(t)
StepBNStore == \E t \in Threads : BNStore(t)

NextBNode ==
    \/ BeginPlain
    \/ StepFinish
    \/ CallBNode
    \/ StepBNNew
    \/ StepBNStore

SpecBNode == Init /\ [][NextBNode]_vars

\* two documents are parsed at once, one in each thread; their profiles are
\* the RDFLib document C or the RDFa document A
NodesRace == { MkNode(p, None, None, <<>>) : p \in {PC, PA} }

BeginRace == \E t \in Threads : Construct(t, NodesRace)

StepsOf(t) ==
    \/ PRLoop(t)
    \/ PRCache(t)
    \/ PRFetch(t)
    \/ PRReturn(t)
    \/ PRGraph(t)
    \/ PRPop(t)
    \/ Finish(t)

NextRace ==
    \/ BeginRace
    \/ \E t \in Threads : StepsOf(t)

SpecRace == Init /\ [][NextRace]_vars

\* @about and @resource of the same documents: safe CURIEs that are complete
\* or not, declared or not, and values without brackets
AboutCalls ==
    { <<"about", <<"[", "p", ":", "x", "]">>>>,
      <<"about", <<"[", "k", ":", "y", "]">>>>,
      <<"about", <<"[", "p", ":", "x">>>>,
      <<"about", <<"[", "]">>>>,
      <<"about", <<" ", "[", "_", ":", "x", "]", " ">>>>,
      <<"resource", <<"p", ":", "x">>>>,
      <<"resource", <<"k", ":", "y">>>>,
      <<"resource", <<"z", "z">>>>,
      <<"resource", <<"_", ":", "x">>>>,
      <<"resource", <<>>>>,
      <<"about", None>> }

CallAbout2 == \E call \in AboutCalls : GetURI(MainThread, Len(ctxs), call[1], call[2])

NextAbout ==
    \/ BeginTerm
    \/ Steps
    \/ CallAbout2

SpecAbout == Init /\ [][NextAbout]_vars

\* nodes with language attributes, with xml:base, or with base elements
MkLangNode(lang, xmllang) ==
    [attrs |-> Attr("lang", lang) @@ Attr("xml:lang", xmllang), attributes |-> <<>>]

MkBaseNode(xmlbase, bases) ==
    [attrs |-> Attr("xml:base", xmlbase), attributes |-> <<>>, bases |-> bases]

OtherBase == <<"b", ":", "/">>

NodesLang ==
    { MkLangNode(l, x) : l \in {None, <<>>, <<"E", "N">>}, x \in {None, <<>>, <<"f", "r">>} }
    \cup { MkBaseNode(b, <<>>) : b \in {<<>>, OtherBase} }
    \cup { MkBaseNode(None, bs) : bs \in {<<<<>>>>, <<OtherBase, None>>} }

\* documents of every family of markup
BeginLang ==
    \E parent \in 0..MaxCtx, node \in NodesLang, version \in Versions,
       host \in HostLanguages :
        Begin(MainThread, parent, node, version, host)

NextLang ==
    \/ BeginLang
    \/ StepFinish

SpecLang == Init /\ [][NextLang]_vars

\* nodes whose declarations name prefixes of every shape: the reserved "_", a
\* name with ':', a name that begins with a digit, names with '.', '-' and '_',
\* and the XML name _a
NodesKeys ==
    { MkNode(PA, None,
             Join(<<<<"1", "r", ":">>, N8, <<"_", ":">>, N7, <<"r", ".", "1", ":">>, N6>>),
             <<XmlnsAttr(<<"_">>, N4), XmlnsAttr(<<"a", ":", "b">>, N5),
               XmlnsAttr(<<"q", "-", "_">>, N4)>>),
      MkNode(PC, None, None, <<XmlnsAttr(<<"_", "a">>, N4)>>) }

BeginKeys == Construct(MainThread, NodesKeys)

NextKeys ==
    \/ BeginKeys
    \/ Steps

SpecKeys == Init /\ [][NextKeys]_vars

(***************************************************************************)
(* Properties                                                              *)
(***************************************************************************)
TopOf(r) == r.frames[Len(r.frames)]

\* the step of thread t that leaves the given place of ProfileRead
Leaves(t, pc) == At(t, pc) /\ run'[t] # run[t]

\* the profile URIs the node of the construction in progress lists
Listed(t) == getURI_profile(run[t].base, run[t].node)

\* C1: once a profile URI is in the cache it is never dereferenced again (so it
\* is fetched at most once), a later resolution of it is not jumped over, and
\* that resolution takes the cached dictionaries.
C1_FetchedOnce ==
    [][ \A P \in ProfileURIs :
          /\ P \in DOMAIN profile_cache =>
               /\ fetches'[P] = fetches[P]
               /\ \A t \in Threads :
                    /\ (Leaves(t, "loop") /\ Top(t).profs # <<>> /\ Head(Top(t).profs) = P)
                          => (TopOf(run'[t]).pc = "cache" /\ TopOf(run'[t]).cur = P)
                    /\ (Leaves(t, "cache") /\ Top(t).cur = P)
                          => /\ TopOf(run'[t]).via = "cache"
                             /\ TopOf(run'[t]).terms = profile_cache[P][1]
                             /\ TopOf(run'[t]).ns = profile_cache[P][2]
          /\ P \in DOMAIN profile_cache' => fetches'[P] <= 1
      ]_vars

\* a profile fetched once has just been taken from the cache
C1_Witness ==
    /\ At(MainThread, "pop")
    /\ Top(MainThread).via = "cache"
    /\ fetches[Top(MainThread).cur] = 1
    /\ Len(ctxs) >= 1

\* C2 (as claimed): a resolution of P from the cache delivers the terms, the
\* prefixes and the vocabulary that the first resolution of P wrote.
C2_CachedSameAsFirst ==
    [][ \A t \in Threads :
          (Leaves(t, "cache") /\ Top(t).cur \in DOMAIN profile_cache) =>
              LET P == Top(t).cur
                  n == TopOf(run'[t])
              IN  /\ heap'[n.terms] = first[P].terms
                  /\ heap'[n.ns] = first[P].ns
                  /\ n.vocabulary = IF first[P].vocabulary # None
                                    THEN first[P].vocabulary
                                    ELSE Top(t).vocabulary
      ]_vars

\* C4 (as claimed): a construction under RDFa 1.1 whose node lists a profile that
\* is not cached and cannot be dereferenced ends with FailedProfile.
C4_FailureRaises ==
    [][ \A t \in Threads :
          ( /\ Busy(t)
            /\ run'[t].pc = "idle"
            /\ AtLeast11(run[t].rdfa_version)
            /\ \E i \in DOMAIN Listed(t) :
                 /\ Listed(t)[i] \notin DOMAIN profile_cache
                 /\ Web(Listed(t)[i]).kind = "error" )
          => last'[t].outcome = "FailedProfile"
      ]_vars

\* the step of thread t that meets, in the loop, a profile that is being resolved
MeetsOnStack(t) ==
    /\ Leaves(t, "loop")
    /\ Top(t).profs # <<>>
    /\ Head(Top(t).profs) # GRDDL_PROFILE
    /\ Head(Top(t).profs) \in Range(profile_stack)

\* C3: with A's document listing B and B's document listing A, A and B are each
\* dereferenced at most once; a profile met while it is being resolved is jumped
\* over without an error and without any change to the reader's tables, to the
\* cache or to any dictionary; and a construction under RDFa 1.1 whose node lists A
\* ends, and ends normally.
C3_CycleTerminates ==
    /\ [](fetches[PA] <= 1 /\ fetches[PB] <= 1)
    /\ [][ \A t \in Threads :
             MeetsOnStack(t) =>
                 /\ Busy(t)'
                 /\ Len(run'[t].frames) = Len(Frames(t))
                 /\ TopOf(run'[t]) = [Top(t) EXCEPT !.profs = Tail(Top(t).profs)]
                 /\ heap' = heap
                 /\ profile_cache' = profile_cache
                 /\ fetches' = fetches
                 /\ last' = last
         ]_vars
    /\ (Busy(MainThread) /\ AtLeast11(run[MainThread].rdfa_version)
                          /\ Listed(MainThread) = <<PA>>)
          ~> (run[MainThread].pc = "idle" /\ last[MainThread].op = "construct"
                                         /\ last[MainThread].outcome = "ok")

\* the node listed A: inside A's document B was read, inside B's document A was
\* jumped over; both were dereferenced once and B's entry holds B's own binding
C3_Witness ==
    /\ run[MainThread].pc = "idle"
    /\ last[MainThread].op = "construct"
    /\ last[MainThread].outcome = "ok"
    /\ {PA, PB} \subseteq DOMAIN profile_cache
    /\ fetches[PA] = 1
    /\ fetches[PB] = 1
    /\ heap[profile_cache[PB][1]] = (<<"t">> :> <<"u", ":", "2">>)
    /\ heap[profile_cache[PA][1]] = (<<"t">> :> <<"u", ":", "1">>)

(***************************************************************************)
(* Blank nodes                                                             *)
(***************************************************************************)
\* the local name of the blank-node CURIE val ("_:" and a reference that does not
\* start with a colon); None if val is no such CURIE
BNodeReference(val) ==
    IF Len(val) >= 2 /\ val[1] = "_" /\ val[2] = ":" /\ (Len(val) >= 3 => val[3] # ":")
    THEN SubSeq(val, 3, Len(val))
    ELSE None

\* the blank-node CURIE a resolution was asked for: the value of CURIE_to_URI, or
\* what a safe CURIE of @about/@resource holds between its brackets
AskedBNode(l) ==
    IF l.op = "CURIE_to_URI" THEN BNodeReference(l.val)
    ELSE IF l.op = "getURI_about" /\ Len(l.val) >= 2 /\ l.val[1] = "[" /\ l.val[Len(l.val)] = "]"
         THEN BNodeReference(SubSeq(l.val, 2, Len(l.val) - 1))
         ELSE None

\* C5: a local name keeps the blank node it got at its first occurrence, two
\* local names never have the same blank node, no local name has the anonymous
\* blank node, and a resolution of "_:name" returns the blank node of the name,
\* one of "_:" the anonymous blank node.
C5_BNodesStable ==
    [][ /\ \A r \in DOMAIN bnodes : r \in DOMAIN bnodes' /\ bnodes'[r] = bnodes[r]
        /\ \A r1, r2 \in DOMAIN bnodes' : r1 # r2 => bnodes'[r1] # bnodes'[r2]
        /\ \A r \in DOMAIN bnodes' : bnodes'[r] # empty_bnode
        /\ \A t \in Threads :
             (last'[t] # last[t] /\ AskedBNode(last'[t]) # None) =>
                 LET reference == AskedBNode(last'[t])
                 IN  IF reference = <<>>
                     THEN last'[t].ret = BNode(empty_bnode) /\ bnodes' = bnodes
                     ELSE /\ reference \in DOMAIN bnodes'
                          /\ last'[t].ret = BNode(bnodes'[reference])
      ]_vars

\* x got its blank node, then y got another one, and now a safe CURIE in @about
\* has resolved x again
C5_Witness ==
    /\ last[MainThread].op = "getURI_about"
    /\ last[MainThread].val = <<"[", "_", ":", "x", "]">>
    /\ <<"x">> \in DOMAIN bnodes
    /\ <<"y">> \in DOMAIN bnodes
    /\ bnodes[<<"x">>] < bnodes[<<"y">>]
    /\ last[MainThread].ret = BNode(bnodes[<<"x">>])

(***************************************************************************)
(* The local prefix map                                                    *)
(***************************************************************************)
\* the step of thread t that ends a construction with a new context
Builds(t) == Busy(t) /\ run'[t].pc = "idle" /\ Len(ctxs') = Len(ctxs) + 1

NewCtx == ctxs'[Len(ctxs')]

\* the namespace-style declarations of a node under RDFa 1.1: positions in the
\* attribute list, and the key and the value of a position
XmlnsAt(node) ==
    { i \in DOMAIN node.attributes :
        LET a == node.attributes[i]
        IN  /\ startswith(a.name, XMLNS_COLON)
            /\ a.localName # <<>>
            /\ a.localName # <<"_">>
            /\ find(a.localName, ":") = 0 }

XmlnsKey(node, i) == lower(node.attributes[i].localName)

\* the pairs of the @prefix attribute that declare a prefix: positions of the
\* prefix token in the list of tokens
PairsAt(node) ==
    IF hasAttribute(node, "prefix")
    THEN LET pr_list == split(strip(getAttribute(node, "prefix")))
         IN  { j \in DOMAIN pr_list :
                 /\ j % 2 = 1
                 /\ j + 1 <= Len(pr_list)
                 /\ LET tok == pr_list[j]
                    IN  /\ tok[Len(tok)] = ":"
                        /\ Len(tok) > 1
                        /\ tok # <<"_", ":">>
                        /\ ncname(SubSeq(tok, 1, Len(tok) - 1)) }
    ELSE {}

PairKey(node, j) ==
    LET tok == split(strip(getAttribute(node, "prefix")))[j]
    IN  lower(SubSeq(tok, 1, Len(tok) - 1))

PairValue(node, j) == quote_URI(split(strip(getAttribute(node, "prefix")))[j + 1])

Absent == [absent |-> TRUE]

\* the namespace the nearest declaration of prefix k gives, from context c upwards
RECURSIVE NearestDeclaration(_, _)
NearestDeclaration(c, k) ==
    IF k \in DOMAIN ctxs[c].dict THEN ctxs[c].dict[k]
    ELSE IF ctxs[c].parent = 0 THEN Absent
    ELSE NearestDeclaration(ctxs[c].parent, k)

Lookup(d, k) == IF k \in DOMAIN d THEN d[k] ELSE Absent

AllPrefixes == UNION { DOMAIN heap[ctxs[c].ns] \cup DOMAIN ctxs[c].dict : c \in DOMAIN ctxs }

C10_ContextsImmutable ==
    [][ \A c \in DOMAIN ctxs :
          /\ c \in DOMAIN ctxs'
          /\ ctxs'[c] = ctxs[c]
          /\ ctxs[c].terms \in DOMAIN heap'
          /\ ctxs[c].ns \in DOMAIN heap'
          /\ heap'[ctxs[c].terms] = heap[ctxs[c].terms]
          /\ heap'[ctxs[c].ns] = heap[ctxs[c].ns]
      ]_vars

\* a child without declarations shares both tables of its parent, which holds
\* bindings, and a CURIE has been resolved in the child
C10_Witness ==
    /\ Len(ctxs) = 2
    /\ ctxs[2].parent = 1
    /\ ctxs[2].terms = ctxs[1].terms
    /\ ctxs[2].ns = ctxs[1].ns
    /\ heap[ctxs[1].ns] # EmptyDict
    /\ last[MainThread].op = "CURIE_to_URI"
    /\ last[MainThread].ctx = 2
    /\ last[MainThread].ret.t = "uri"

(***************************************************************************)
(* What the profiles of a node give                                        *)
(***************************************************************************)
\* the profiles that can be read
Readable == { u \in ProfileURIs : Web(u).kind # "error" /\ \A i \in DOMAIN Web(u).refs :
                                                       Web(Web(u).refs[i]).kind # "error" }

\* the bindings of the profiles profs, taken one after the other
RECURSIVE Accumulated(_, _, _)
Accumulated(d, profs, term_or_prefix) ==
    IF profs = <<>> THEN d
    ELSE Accumulated(find_terms(d, Web(Head(profs)).graph, term_or_prefix),
                     Tail(profs), term_or_prefix)

\* the vocabulary of the profiles profs, taken one after the other
RECURSIVE AccumulatedVocabulary(_, _)
AccumulatedVocabulary(v, profs) ==
    IF profs = <<>> THEN v
    ELSE AccumulatedVocabulary(graph_vocabulary(v, Web(Head(profs)).graph), Tail(profs))

\* C7 (as claimed): the terms and the prefixes the profiles of a node give are
\* the bindings of every listed profile, accumulated from the rightmost to the
\* leftmost, whichever of them are cached.
C7_AllProfilesAccumulated ==
    [][ \A t \in Threads :
          ( /\ Builds(t)
            /\ AtLeast11(run[t].rdfa_version)
            /\ Range(Listed(t)) \subseteq Readable )
          => /\ heap[Top(t).terms] = Accumulated(EmptyDict, reverse(Listed(t)), "term")
             /\ heap[Top(t).ns] = Accumulated(EmptyDict, reverse(Listed(t)), "prefix")
      ]_vars

\* C8 (as claimed): under RDFa 1.1 the default vocabulary of a new context is the
\* local @vocab if the node has one, otherwise the vocabulary its profiles
\* declare if they declare one, otherwise the parent's, otherwise none.
C8_VocabularyPrecedence ==
    [][ \A t \in Threads :
          ( /\ Builds(t)
            /\ AtLeast11(run[t].rdfa_version)
            /\ Range(Listed(t)) \subseteq Readable )
          => LET local == getURI_vocab(run[t].base, run[t].node)
                 declared == AccumulatedVocabulary(None, reverse(Listed(t)))
             IN  NewCtx.default_term_uri =
                     IF local # None THEN local
                     ELSE IF declared # None THEN declared
                     ELSE IF run[t].parent > 0 THEN ctxs[run[t].parent].default_term_uri
                     ELSE None
      ]_vars

(***************************************************************************)
(* Terms, CURIEs and absolute URIs in @rel, @rev, @datatype, @typeof and   *)
(* @property                                                               *)
(***************************************************************************)
TermAttrs == {"rel", "rev", "datatype", "typeof", "property"}

\* thread t has just asked for an attribute
Asked(t) == last'[t] # last[t] /\ last'[t].op = "getURI"

\* the values written in the attribute the call l was about
TokensOf(l) ==
    IF l.val = None THEN <<>>
    ELSE IF l.attr \in list_attrs THEN split(l.val) ELSE <<strip(l.val)>>

\* what the call l returned, as a sequence
ReturnedBy(l) ==
    IF l.attr \in list_attrs THEN l.ret
    ELSE IF l.ret = NoneVal THEN <<>> ELSE <<l.ret>>

\* a value that is no NCNAME and that is no CURIE of context c either
NoCurie(c, tok) ==
    /\ tok # <<>>
    /\ ~ncname(tok)
    /\ LET r == CURIE_to_URI(c, tok, bnodes', bnode_made').ret
       IN  r = NoneVal \/ (r.t = "uri" /\ r.v = <<>>)

\* C11: a value of @rel, @rev, @datatype, @typeof or @property that is no NCNAME
\* and cannot be resolved as a CURIE is not returned as a URI under RDFa 1.0,
\* where an UnresolvablePrefix warning is added; under RDFa 1.1 it is returned as
\* it is written exactly if it has a scheme, and if it has none an
\* UnresolvablePrefix warning is added.
C11_AbsoluteURIOnlyUnder11 ==
    [][ \A t \in Threads :
          (Asked(t) /\ last'[t].attr \in TermAttrs) =>
              LET l == last'[t]
                  c == ctxs[l.ctx]
                  toks == TokensOf(l)
              IN  \A i \in DOMAIN toks :
                      NoCurie(c, toks[i]) =>
                          IF c.rdfa_version = "1.0"
                          THEN /\ URIRef(toks[i]) \notin Range(ReturnedBy(l))
                               /\ "UnresolvablePrefix" \in Range(l.warnings)
                          ELSE IF scheme(toks[i]) # <<>>
                               THEN URIRef(toks[i]) \in Range(ReturnedBy(l))
                               ELSE /\ URIRef(toks[i]) \notin Range(ReturnedBy(l))
                                    /\ "UnresolvablePrefix" \in Range(l.warnings)
      ]_vars

\* under RDFa 1.1, typeof="k:y /y" with no prefix k: k:y is returned as it is,
\* /y is not
C11_Witness ==
    /\ last[MainThread].op = "getURI"
    /\ last[MainThread].attr = "typeof"
    /\ ctxs[last[MainThread].ctx].rdfa_version = "1.1"
    /\ last[MainThread].ret = <<URIRef(<<"k", ":", "y">>)>>
    /\ last[MainThread].warnings = <<"UnresolvablePrefix">>

\* what the term table and the default vocabulary of context c give for a name
TermOrVocabulary(c, tok) ==
    IF lower(tok) \in DOMAIN heap[c.terms] THEN URIRef(heap[c.terms][lower(tok)])
    ELSE IF c.default_term_uri # None THEN URIRef(c.default_term_uri \o tok)
    ELSE NoneVal

\* C12: a value that is an NCNAME resolves to the URI the term table has for the
\* lower-cased value if it has one; otherwise to the default vocabulary followed
\* by the value as written if there is a default vocabulary; otherwise it is not
\* resolved and an UnresolvableTerm warning is added.  The prefix table is not
\* asked, whether it has the name or not.
C12_TermThenVocabulary ==
    [][ \A t \in Threads :
          (Asked(t) /\ last'[t].attr \in TermAttrs) =>
              LET l == last'[t]
                  c == ctxs[l.ctx]
                  toks == TokensOf(l)
              IN  /\ \A i \in DOMAIN toks :
                        ncname(toks[i]) =>
                            IF TermOrVocabulary(c, toks[i]) # NoneVal
                            THEN TermOrVocabulary(c, toks[i]) \in Range(ReturnedBy(l))
                            ELSE "UnresolvableTerm" \in Range(l.warnings)
                  /\ (Len(toks) = 1 /\ ncname(toks[1])) =>
                        ReturnedBy(l) = IF TermOrVocabulary(c, toks[1]) # NoneVal
                                        THEN <<TermOrVocabulary(c, toks[1])>>
                                        ELSE <<>>
      ]_vars

\* rel="T" where the profile gave the term t and a vocabulary: the term wins
C12_Witness ==
    /\ last[MainThread].op = "getURI"
    /\ last[MainThread].attr = "rel"
    /\ last[MainThread].val = <<"T">>
    /\ ctxs[last[MainThread].ctx].default_term_uri # None
    /\ last[MainThread].ret = <<URIRef(<<"u", ":", "1">>)>>

\* what one value of the attribute resolves to, on its own
Single(l, tok) == resource_type(ctxs[l.ctx], l.attr, strip(tok), bnodes', bnode_made').ret

\* C13: for a list-valued attribute getURI returns, in the order of the values
\* and with repetitions, what the values that can be resolved resolve to, each on
\* its own, and nothing for the others, so not more than there are values; for
\* an attribute the node does not have it returns the empty list if the attribute
\* is list-valued and None if it is not.
C13_ListInOrder ==
    [][ \A t \in Threads :
          Asked(t) =>
              LET l == last'[t]
                  toks == TokensOf(l)
                  single == [ i \in DOMAIN toks |-> Single(l, toks[i]) ]
                  resolved == { i \in DOMAIN toks : single[i] # NoneVal }
                  nth(j) == CHOOSE i \in resolved :
                                Cardinality({ k \in resolved : k <= i }) = j
              IN  /\ l.val = None =>
                        l.ret = IF l.attr \in {"profile", "rel", "rev", "property", "typeof"}
                                THEN <<>> ELSE NoneVal
                  /\ (l.val # None /\ l.attr \in {"profile", "rel", "rev", "property", "typeof"}) =>
                        /\ Len(l.ret) <= Len(toks)
                        /\ Len(l.ret) = Cardinality(resolved)
                        /\ \A j \in DOMAIN l.ret : l.ret[j] = single[nth(j)]
      ]_vars

\* property="t /y  t q:x z" where the profile gave the term t and a vocabulary:
\* five values gave four URIs, the term's URI twice; /y gave nothing
C13_Witness ==
    /\ last[MainThread].op = "getURI"
    /\ last[MainThread].attr = "property"
    /\ Len(split(last[MainThread].val)) = 5
    /\ Len(last[MainThread].ret) = 4
    /\ last[MainThread].ret[1] = URIRef(<<"u", ":", "1">>)
    /\ last[MainThread].ret[2] = URIRef(<<"u", ":", "1">>)
    /\ last[MainThread].ret[4] = URIRef(<<"v", ":", "1", "z">>)
\* C14: blank-node allocation is atomic per local name: the callers of
\* CURIE_to_URI that asked for the same local name, in whatever thread and
\* however their statements interleave, hold the same blank node, and that node
\* is the one the table has for the name
C14_AtomicAllocation ==
    \A t \in Threads :
        last[t].op = "bnode" =>
            /\ last[t].reference \in DOMAIN bnodes
            /\ last[t].ret = BNode(bnodes[last[t].reference])
            /\ \A u \in Threads :
                   (last[u].op = "bnode" /\ last[u].reference = last[t].reference)
                       => last[u].ret = last[t].ret

\* the bindings profile P gives on its own
Bindings(P, term_or_prefix) == find_terms(EmptyDict, Web(P).graph, term_or_prefix)

\* C15 (as claimed): the cycle guard is per chain.  For documents parsed at once
\* in two threads that list profile C, which lists no profile: the reader of
\* each document goes on to resolve C when it meets it and the context of each
\* document is built from C's bindings; a chain removes from the stack the entry
\* it appended; and the cache entry of C holds C's bindings.
C15_GuardPerChain ==
    [][ /\ \A t \in Threads :
             /\ ( /\ Leaves(t, "loop")
                  /\ Listed(t) = <<PC>>
                  /\ Top(t).profs # <<>> )
                => (TopOf(run'[t]).pc = "cache" /\ TopOf(run'[t]).cur = PC)
             /\ ( /\ Builds(t)
                  /\ AtLeast11(run[t].rdfa_version)
                  /\ Listed(t) = <<PC>> )
                => /\ heap[Top(t).terms] = Bindings(PC, "term")
                   /\ heap[Top(t).ns] = Bindings(PC, "prefix")
             /\ Leaves(t, "pop") => profile_stack[Len(profile_stack)] = Top(t).cur
        /\ PC \in DOMAIN profile_cache' =>
             /\ heap'[profile_cache'[PC][1]] = Bindings(PC, "term")
             /\ heap'[profile_cache'[PC][2]] = Bindings(PC, "prefix")
      ]_vars

\* C16 (as claimed): the cache is write-once.  No step changes the terms or the
\* prefixes of an entry the profile cache already holds.
C16_CacheEntriesFrozen ==
    [][ \A P \in DOMAIN profile_cache :
          /\ P \in DOMAIN profile_cache'
          /\ heap'[profile_cache'[P][1]] = heap[profile_cache[P][1]]
          /\ heap'[profile_cache'[P][2]] = heap[profile_cache[P][2]]
      ]_vars

\* the profiles the constructor of thread t is in the middle of resolving, from
\* the outermost ProfileRead to the innermost
RECURSIVE ChainOf(_)
ChainOf(frames) ==
    IF frames = <<>> THEN <<>>
    ELSE IF Head(frames).pc = "loop" THEN ChainOf(Tail(frames))
    ELSE <<Head(frames).cur>> \o ChainOf(Tail(frames))

\* C17 (as claimed): the anti-recursion stack is empty whenever no constructor
\* is running, after a normal return and after FailedProfile alike, and while one
\* is running it holds exactly the profiles of the chain being resolved.
C17_StackIsChain ==
    /\ (\A t \in Threads : run[t].pc = "idle") => profile_stack = <<>>
    /\ Busy(MainThread) => profile_stack = ChainOf(Frames(MainThread))

\* C18: @about and @resource.  A value in brackets is never resolved as a plain
\* URI: without its closing bracket, or with a content that is no CURIE of the
\* context, it is unresolvable under both versions, and otherwise it is what the
\* CURIE gives.  A non-empty value without brackets is the plain URI, never
\* unresolvable, under 1.0 always and under 1.1 when it is no CURIE of the
\* context.
C18_SafeCURIENeverPlain ==
    [][ \A t \in Threads :
          ( /\ last'[t] # last[t]
            /\ last'[t].op = "getURI"
            /\ last'[t].attr \in {"about", "resource"}
            /\ last'[t].val # None
            /\ strip(last'[t].val) # <<>> )
          => LET c == ctxs[last'[t].ctx]
                 val == strip(last'[t].val)
                 ret == last'[t].ret
                 bracketed == val[1] = "["
                 closed == val[Len(val)] = "]"
                 inner == SubSeq(val, 2, Len(val) - 1)
                 curie(v) == CURIE_to_URI(c, v, bnodes, bnode_made).ret
                 plain(v) == URIRef(URI(c.base, v))
             IN  IF bracketed
                 THEN IF ~closed THEN ret = NoneVal
                      ELSE IF curie(inner) = NoneVal THEN ret = NoneVal
                      ELSE /\ ret # plain(inner)
                           /\ ret # plain(val)
                           /\ \/ ret = curie(inner)
                              \/ /\ curie(inner).t = "uri"
                                 /\ ret = URIRef(c.base \o curie(inner).v)
                 ELSE IF ~AtLeast11(c.rdfa_version) THEN ret = plain(val)
                      ELSE curie(val) = NoneVal => ret = plain(val)
      ]_vars

\* about="[k:y]" where k is not declared is unresolvable, and resource="k:y" in
\* the same context is the plain URI
C18_Witness ==
    /\ last[MainThread].op = "getURI"
    /\ last[MainThread].attr = "about"
    /\ last[MainThread].val = <<"[", "k", ":", "y", "]">>
    /\ last[MainThread].ret = NoneVal
    /\ AtLeast11(ctxs[last[MainThread].ctx].rdfa_version)

\* the language attribute the family of markup reads on the node
LanguageAttributes(node, host) ==
    IF host \in {XHTML_RDFA, HTML_RDFA}
    THEN {"lang", "xml:lang"} \cap DOMAIN node.attrs
    ELSE {"xml:lang"} \cap DOMAIN node.attrs

\* C19 (as claimed): in every family of markup, a node that has no language
\* attribute, or whose language attributes are all empty, gets the language of
\* the parent context (none at the top).
C19_EmptyLanguageInherits ==
    [][ \A t \in Threads :
          ( /\ Builds(t)
            /\ \A a \in LanguageAttributes(run[t].node, run[t].host_language) :
                  getAttribute(run[t].node, a) = <<>> )
          => NewCtx.lang = IF run[t].parent = 0 THEN None
                           ELSE ctxs[run[t].parent].lang
      ]_vars

\* C20 (as claimed): every context has a base that is not empty, the caller's
\* base being not empty.
C20_BaseNeverEmpty == \A i \in DOMAIN ctxs : ctxs[i].base # <<>>

\* C21 (as claimed): in every context every key of the term table and every
\* non-empty key of the prefix table is an NCNAME (a letter, then letters,
\* digits, '.', '_' or '-'), and "_" is no key of the prefix table.
C21_KeysAreNCNames ==
    \A i \in DOMAIN ctxs :
        /\ \A k \in DOMAIN heap[ctxs[i].terms] : ncname(k)
        /\ \A k \in DOMAIN heap[ctxs[i].ns] : k # <<>> => ncname(k)
        /\ <<"_">> \notin DOMAIN heap[ctxs[i].ns]

\* C22 (as claimed): a value of @about, @resource or of a term attribute that
\* is not empty and comes out unresolvable has added a warning: a call on a
\* scalar attribute that returns nothing for a non-empty value has a warning,
\* and a call on a list attribute has at least one warning for every token it
\* dropped.
C22_UnresolvableWarns ==
    [][ \A t \in Threads :
          ( /\ last'[t] # last[t]
            /\ last'[t].op = "getURI"
            /\ last'[t].attr \in TermAttrs \cup {"about", "resource"}
            /\ last'[t].val # None )
          => IF last'[t].attr \in list_attrs
             THEN Len(split(last'[t].val)) - Len(last'[t].ret) <= Len(last'[t].warnings)
             ELSE (strip(last'[t].val) # <<>> /\ last'[t].ret = NoneVal)
                      => last'[t].warnings # <<>>
      ]_vars

=============================================================================
